---- MODULE Spec2Model ----
(***************************************************************************)
(* Bermuda BLE trilateration: the update coordinator of                    *)
(* custom_components/bermuda/__init__.py as a state machine.               *)
(*                                                                         *)
(* Distances are fixed-point numbers in micrometres (Scale per metre),     *)
(* times are whole seconds of the monotonic clock.  A python None is the   *)
(* string None for text fields and NoneNum for numeric fields.  An address *)
(* is a record [mac, upper, sep]: the hardware address, the letter case    *)
(* and the separator it is written with, so that format_mac and upper()    *)
(* are conversions and not the identity.  An object reference into         *)
(* self.devices is the position of the entry, 0 for None.                  *)
(***************************************************************************)
EXTENDS Integers, Sequences, FiniteSets, TLC

None == "None"
\* an unset area_name; a set one is the sequence of the name's characters
NoneName == << >>
NoneNum == -1
NoDevice == 0
Scale == 1000000

\* ---------------------------------------------------------------- bounds
MaxTicks == 2
MaxClockSteps == 1
MaxSnapshot == 2
MaxSightings == 2
MaxStampAge == 0
BootTime == 30

\* -------------------------------------------------------- input universe
WatchMac == "watch"
AdvertMacs == {WatchMac, "s1"}
ScannerMacs == {"s1", "s2"}
\* a second beacon, not on the allow-list
TagMac == "tag"
Macs == AdvertMacs \cup ScannerMacs \cup {TagMac}
RssiValues == {-55, -69, -85}
\* the signal strengths a BLE receiver reports, in dBm
RssiRange == -127..20
Areas == {"a1", "a2"}
Addr(m, u, s) == [mac |-> m, upper |-> u, sep |-> s]
RawAddresses == {Addr(m, u, s) : m \in Macs, u \in BOOLEAN, s \in {":", "-"}}
Anonymous ==
    [name |-> None, local_name |-> None, manufacturer |-> None, connectable |-> FALSE]
ServiceInfoNames ==
    { Anonymous,
      [name |-> "n1", local_name |-> "ln", manufacturer |-> "mf",
       connectable |-> TRUE],
      [name |-> "n2", local_name |-> None, manufacturer |-> None,
       connectable |-> TRUE] }

\* ------------------------------------------------ homeassistant helpers
\* format_mac: 17 characters with ":" are lower-cased; with "-" the
\* separators are dropped and the 12 digits re-joined with ":" in lower case.
format_mac(a) == [mac |-> a.mac, upper |-> FALSE, sep |-> ":"]
\* str.upper(): letters upper-cased, separators untouched.
Upper(a) == [a EXCEPT !.upper = TRUE]
\* DOMAIN + "_" + slugify(address)
Placeholder(a) == [generated |-> TRUE, text |-> format_mac(a).mac]
Named(s) == [generated |-> FALSE, text |-> s]
NoPrefname == Named(None)

\* ------------------------------------------------------- rssi_to_metres
attenuation == 3
ref_power == -55
max_area_radius == 3 * Scale
timeout_not_home == 60
\* the monotonic clock is read at multiples of the timeout after BootTime
ClockStep == timeout_not_home
\* 10 ** (r / 30) for r = 0..29, in micrometres
Pow10Frac ==
    << 1000000, 1079775, 1165914, 1258925, 1359356, 1467799, 1584893,
       1711328, 1847850, 1995262, 2154435, 2326305, 2511886, 2712273,
       2928645, 3162278, 3414549, 3686945, 3981072, 4298662, 4641589,
       5011872, 5411695, 5843414, 6309573, 6812921, 7356423, 7943282,
       8576959, 9261187 >>
RECURSIVE Pow10(_)
Pow10(n) == IF n = 0 THEN 1 ELSE 10 * Pow10(n - 1)
\* the distance rounded down to whole metres
rssi_to_metres_WholeMetres(rssi) ==
    LET e == ref_power - rssi
        d == 10 * attenuation
        q == e \div d
        r == e % d
        exact == IF q >= 0 THEN Pow10Frac[r + 1] * Pow10(q)
                           ELSE Pow10Frac[r + 1] \div Pow10(-q)
    IN  (exact \div Scale) * Scale
rssi_to_metres(rssi) ==
    LET e == ref_power - rssi
        d == 10 * attenuation
        q == e \div d
        r == e % d
    IN  IF q >= 0 THEN Pow10Frac[r + 1] * Pow10(q)
                  ELSE Pow10Frac[r + 1] \div Pow10(-q)

\* ------------------------------------------------- BermudaDeviceScanner
\* scandata: [source, rssi, has_timestamps, timestamps], timestamps being
\* scanner._discovered_device_timestamps, a function keyed by upper-case MACs.
BermudaDeviceScanner(device_address, scandata, area_id) ==
    [ source        |-> scandata.source,
      area_id       |-> area_id,
      rssi          |-> scandata.rssi,
      rssi_distance |-> rssi_to_metres(scandata.rssi),
      stamp         |->
          IF scandata.has_timestamps
          THEN LET uppermac == Upper(device_address)
               IN  IF uppermac \in DOMAIN scandata.timestamps
                   THEN scandata.timestamps[uppermac]
                   ELSE 0
          ELSE 0 ]

\* -------------------------------------------------------- BermudaDevice
NewBermudaDevice ==
    [ address          |-> Addr(None, FALSE, ":"),
      unique_id        |-> Addr(None, FALSE, ":"),
      name             |-> None,
      local_name       |-> None,
      prefname         |-> NoPrefname,
      area_id          |-> None,
      area_name        |-> NoneName,
      area_distance    |-> NoneNum,
      zone             |-> None,
      manufacturer     |-> None,
      connectable      |-> FALSE,
      is_scanner       |-> FALSE,
      entry_id         |-> None,
      send_tracker_see |-> FALSE,
      create_sensor    |-> FALSE,
      last_seen        |-> 0,
      scanners         |-> << >> ]

\* a python dict keeps insertion order; assigning to a present key keeps
\* the key's position.  A dict is a sequence of [key, val] entries.
DictIndex(d, k) ==
    IF \E i \in 1..Len(d) : d[i].key = k
    THEN CHOOSE i \in 1..Len(d) : d[i].key = k /\ \A j \in 1..(i - 1) : d[j].key # k
    ELSE 0
DictSet(d, k, v) ==
    IF DictIndex(d, k) = 0
    THEN Append(d, [key |-> k, val |-> v])
    ELSE [d EXCEPT ![DictIndex(d, k)] = [key |-> k, val |-> v]]
DictKeys(d) == {d[i].key : i \in 1..Len(d)}

\* a merge instead of a replacement: the replaced observation's stamp is
\* kept when it is the larger one
add_scanner_KeepStamp(self, scanner_device, discoveryinfo) ==
    LET key == format_mac(scanner_device.address)
        built == BermudaDeviceScanner(self.address, discoveryinfo,
                                      scanner_device.area_id)
        old == DictIndex(self.scanners, key)
        newscanner == IF old # 0 /\ self.scanners[old].val.stamp > built.stamp
                      THEN [built EXCEPT !.stamp = self.scanners[old].val.stamp]
                      ELSE built
        stored == [self EXCEPT !.scanners = DictSet(self.scanners, key, newscanner)]
    IN  IF stored.last_seen < newscanner.stamp
        THEN [stored EXCEPT !.last_seen = newscanner.stamp]
        ELSE stored
\* last_seen follows the newest sighting instead of the largest stamp
add_scanner_LastStamp(self, scanner_device, discoveryinfo) ==
    LET newscanner == BermudaDeviceScanner(self.address, discoveryinfo,
                                           scanner_device.area_id)
        stored == [self EXCEPT !.scanners =
                      DictSet(self.scanners, format_mac(scanner_device.address),
                              newscanner)]
    IN  [stored EXCEPT !.last_seen = newscanner.stamp]
\* last_seen is left as it is
add_scanner_NoLastSeen(self, scanner_device, discoveryinfo) ==
    LET newscanner == BermudaDeviceScanner(self.address, discoveryinfo,
                                           scanner_device.area_id)
    IN  [self EXCEPT !.scanners =
            DictSet(self.scanners, format_mac(scanner_device.address),
                    newscanner)]
\* only the newest observation is kept
add_scanner_OnlyLatest(self, scanner_device, discoveryinfo) ==
    LET newscanner == BermudaDeviceScanner(self.address, discoveryinfo,
                                           scanner_device.area_id)
        stored == [self EXCEPT !.scanners =
                      DictSet(<< >>, format_mac(scanner_device.address),
                              newscanner)]
    IN  IF stored.last_seen < newscanner.stamp
        THEN [stored EXCEPT !.last_seen = newscanner.stamp]
        ELSE stored
add_scanner(self, scanner_device, discoveryinfo) ==
    LET newscanner == BermudaDeviceScanner(self.address, discoveryinfo,
                                           scanner_device.area_id)
        stored == [self EXCEPT !.scanners =
                      DictSet(self.scanners, format_mac(scanner_device.address),
                              newscanner)]
    IN  IF stored.last_seen < newscanner.stamp
        THEN [stored EXCEPT !.last_seen = newscanner.stamp]
        ELSE stored

\* ---------------------------------------------------------------- to_dict
\* BermudaDeviceScanner.to_dict: every attribute under its own name
scanner_to_dict(scanner) == [var \in DOMAIN scanner |-> scanner[var]]
RECURSIVE ScanOut(_, _, _)
\* the loop over self.scanners.items() filling scanout
ScanOut(scanners, k, scanout) ==
    IF k > Len(scanners) THEN scanout
    ELSE ScanOut(scanners, k + 1,
                 DictSet(scanout, scanners[k].key, scanner_to_dict(scanners[k].val)))
\* the dump that leaves the scanners out
to_dict_NoScanners(device) ==
    [var \in DOMAIN device |->
        IF var = "scanners" THEN << >> ELSE device[var]]
\* BermudaDevice.to_dict: every attribute, scanners as a fresh dict of dicts
to_dict(device) ==
    [var \in DOMAIN device |->
        IF var = "scanners" THEN ScanOut(device.scanners, 1, << >>)
        ELSE device[var]]
RECURSIVE DumpOut(_, _, _)
\* the loop over self.devices.items() filling out
DumpOut(devs, k, out) ==
    IF k > Len(devs) THEN out
    ELSE DumpOut(devs, k + 1, DictSet(out, devs[k].key, to_dict(devs[k].val)))
service_dump_devices(devs) == DumpOut(devs, 1, << >>)

\* -------------------------------------------------- coordinator registry
\* the lookup without the normalisation
_get_device_Raw(devs, address) == DictIndex(devs, address)
_get_device(devs, address) ==
    LET mac == format_mac(address) IN DictIndex(devs, mac)

\* the record keeps the address as it was passed in
_get_or_create_device_RawAddress(devs, address) ==
    LET device == _get_device(devs, address)
    IN  IF device = NoDevice
        THEN LET mac == format_mac(address)
                 created == [NewBermudaDevice EXCEPT !.address = address,
                                                     !.unique_id = address]
             IN  [devices |-> DictSet(devs, mac, created),
                  device  |-> Len(devs) + 1]
        ELSE [devices |-> devs, device |-> device]
_get_or_create_device(devs, address) ==
    LET device == _get_device(devs, address)
    IN  IF device = NoDevice
        THEN LET mac == format_mac(address)
                 created == [NewBermudaDevice EXCEPT !.address = mac,
                                                     !.unique_id = mac]
             IN  [devices |-> DictSet(devs, mac, created),
                  device  |-> Len(devs) + 1]
        ELSE [devices |-> devs, device |-> device]

SetDevice(devs, i, rec) == [devs EXCEPT ![i] = [key |-> devs[i].key, val |-> rec]]

\* ------------------------------------------------- external collaborators
\* hass.data["device_registry"]: the entries with a connection to a scanner,
\* in the registry's iteration order, at most one per scanner.
DirEntry(m, withArea) ==
    [ connection   |-> <<"mac", Addr(m, FALSE, ":")>>,
      area_id      |-> IF withArea THEN (IF m = "s1" THEN "a1" ELSE "a2") ELSE None,
      id           |-> m,
      name_by_user |-> IF withArea THEN "user" ELSE None,
      name         |-> "proxy" ]
DirEntries == {DirEntry(m, b) : m \in ScannerMacs, b \in BOOLEAN}
Directories ==
    { << >> } \cup { <<e>> : e \in DirEntries } \cup
    { d \in {<<e, f>> : e \in DirEntries, f \in DirEntries} :
        d[1].id = "s1" /\ d[2].id = "s2" }

\* self.ar.async_get_area(area_id): the area entry, or None for an id the
\* area registry does not hold (None included).
AreaRegistry == [a \in Areas |-> IF a = "a1" THEN <<"K">> ELSE <<"D", "e", "n">>]
async_get_area(area_id) == IF area_id \in DOMAIN AreaRegistry THEN area_id ELSE None

\* the hard-coded allow-list of _async_update_data, upper-case with ":"
TrackedAddresses == {Addr(WatchMac, TRUE, ":")}

\* ----------------------------------------------------- _refresh_scanners
RECURSIVE RefreshEntries_Live(_, _, _, _)
\* observations that follow their scanner: the area of a refreshed scanner
\* is written into every observation stored under its address
RefreshEntries_Live(devs, entries, addresses, k) ==
    IF k > Len(entries) THEN devs
    ELSE LET dev_entry == entries[k]
             dev_connection == dev_entry.connection
         IN  IF /\ dev_connection[1] \in {"mac", "bluetooth"}
                /\ Upper(dev_connection[2]) \in addresses
             THEN LET found_address == Upper(dev_connection[2])
                      r == _get_or_create_device(devs, found_address)
                      scandev == r.devices[r.device].val
                      upd == [scandev EXCEPT
                                !.area_id = dev_entry.area_id,
                                !.entry_id = dev_entry.id,
                                !.name = IF dev_entry.name_by_user # None
                                         THEN dev_entry.name_by_user
                                         ELSE dev_entry.name,
                                !.is_scanner = TRUE]
                      devs1 == SetDevice(r.devices, r.device, upd)
                      live == [i \in 1..Len(devs1) |->
                                 [devs1[i] EXCEPT !.val.scanners =
                                    [n \in 1..Len(@) |->
                                       IF @[n].key = format_mac(found_address)
                                       THEN [@[n] EXCEPT !.val.area_id =
                                                dev_entry.area_id]
                                       ELSE @[n]]]]
                  IN  RefreshEntries_Live(live, entries, addresses, k + 1)
             ELSE RefreshEntries_Live(devs, entries, addresses, k + 1)
RECURSIVE RefreshEntries(_, _, _, _)
RefreshEntries(devs, entries, addresses, k) ==
    IF k > Len(entries) THEN devs
    ELSE LET dev_entry == entries[k]
             dev_connection == dev_entry.connection
         IN  IF /\ dev_connection[1] \in {"mac", "bluetooth"}
                /\ Upper(dev_connection[2]) \in addresses
             THEN LET found_address == Upper(dev_connection[2])
                      r == _get_or_create_device(devs, found_address)
                      scandev == r.devices[r.device].val
                      upd == [scandev EXCEPT
                                !.area_id = dev_entry.area_id,
                                !.entry_id = dev_entry.id,
                                !.name = IF dev_entry.name_by_user # None
                                         THEN dev_entry.name_by_user
                                         ELSE dev_entry.name,
                                !.is_scanner = TRUE]
                  IN  RefreshEntries(SetDevice(r.devices, r.device, upd),
                                     entries, addresses, k + 1)
             ELSE RefreshEntries(devs, entries, addresses, k + 1)

\* scanners: the sources of the batch of matched scanners
_refresh_scanners(devs, scanners, dir) ==
    LET addresses == {Upper(scanners[i]) : i \in 1..Len(scanners)}
    IN  IF Cardinality(addresses) > 0
        THEN RefreshEntries(devs, dir, addresses, 1)
        ELSE devs

\* ------------------------------------------ _refresh_area_by_min_distance
RECURSIVE ClosestScanner_LastTie(_, _, _, _)
\* <= for <: the last of several equally near observations wins
ClosestScanner_LastTie(scanners, radius, closest, k) ==
    IF k > Len(scanners) THEN closest
    ELSE LET scanner == scanners[k].val
         IN  IF /\ scanner.rssi_distance < radius
                /\ \/ closest = 0
                   \/ scanner.rssi_distance <= scanners[closest].val.rssi_distance
             THEN ClosestScanner_LastTie(scanners, radius, k, k + 1)
             ELSE ClosestScanner_LastTie(scanners, radius, closest, k + 1)
RECURSIVE ClosestScanner(_, _, _, _)
\* the for loop over device.scanners.values(); closest is a position, 0 = None
ClosestScanner(scanners, radius, closest, k) ==
    IF k > Len(scanners) THEN closest
    ELSE LET scanner == scanners[k].val
         IN  IF /\ scanner.rssi_distance < radius
                /\ \/ closest = 0
                   \/ scanner.rssi_distance < scanners[closest].val.rssi_distance
             THEN ClosestScanner(scanners, radius, k, k + 1)
             ELSE ClosestScanner(scanners, radius, closest, k + 1)

\* the branch without a winner clears area_id only
_refresh_area_by_min_distance_KeepsDistance(device, radius) ==
    LET closest == ClosestScanner(device.scanners, radius, 0, 1)
    IN  IF closest # 0
        THEN LET closest_scanner == device.scanners[closest].val
                 d1 == [device EXCEPT !.area_id = closest_scanner.area_id]
                 area == async_get_area(d1.area_id)
             IN  IF area = None
                 THEN [device |-> d1, raised |-> TRUE]
                 ELSE [device |-> [d1 EXCEPT
                                     !.area_name = AreaRegistry[area],
                                     !.area_distance = closest_scanner.rssi_distance],
                       raised |-> FALSE]
        ELSE [device |-> [device EXCEPT !.area_id = None], raised |-> FALSE]

\* [device, raised]: raised when async_get_area returns None and .name is read
_refresh_area_by_min_distance(device, radius) ==
    LET closest == ClosestScanner(device.scanners, radius, 0, 1)
    IN  IF closest # 0
        THEN LET closest_scanner == device.scanners[closest].val
                 d1 == [device EXCEPT !.area_id = closest_scanner.area_id]
                 area == async_get_area(d1.area_id)
             IN  IF area = None
                 THEN [device |-> d1, raised |-> TRUE]
                 ELSE LET areas == AreaRegistry[area]
                          d2 == [d1 EXCEPT !.area_name =
                                    IF Len(areas) = 1 THEN <<areas[1]>> ELSE areas]
                      IN  [device |-> [d2 EXCEPT !.area_distance =
                                          closest_scanner.rssi_distance],
                           raised |-> FALSE]
        ELSE [device |-> [device EXCEPT !.area_id = None,
                                        !.area_name = NoneName,
                                        !.area_distance = NoneNum],
              raised |-> FALSE]

RECURSIVE _refresh_areas_by_min_distance_SkipsResolved(_, _, _)
\* only the devices that have no area yet are resolved
_refresh_areas_by_min_distance_SkipsResolved(devs, k, done) ==
    IF k > Len(devs) THEN [devices |-> devs, done |-> done, raised |-> FALSE]
    ELSE LET device == devs[k].val
         IN  IF device.is_scanner # TRUE /\ device.area_id = None
             THEN LET r == _refresh_area_by_min_distance(device, max_area_radius)
                      devs1 == SetDevice(devs, k, r.device)
                  IN  IF r.raised
                      THEN [devices |-> devs1, done |-> done, raised |-> TRUE]
                      ELSE _refresh_areas_by_min_distance_SkipsResolved(
                               devs1, k + 1, done \cup {devs[k].key})
             ELSE _refresh_areas_by_min_distance_SkipsResolved(devs, k + 1, done)
RECURSIVE _refresh_areas_by_min_distance(_, _, _)
\* [devices, done, raised]: done = the keys the resolver returned for
_refresh_areas_by_min_distance(devs, k, done) ==
    IF k > Len(devs) THEN [devices |-> devs, done |-> done, raised |-> FALSE]
    ELSE LET device == devs[k].val
         IN  IF device.is_scanner # TRUE
             THEN LET r == _refresh_area_by_min_distance(device, max_area_radius)
                      devs1 == SetDevice(devs, k, r.device)
                  IN  IF r.raised
                      THEN [devices |-> devs1, done |-> done, raised |-> TRUE]
                      ELSE _refresh_areas_by_min_distance(
                               devs1, k + 1, done \cup {devs[k].key})
             ELSE _refresh_areas_by_min_distance(devs, k + 1, done)

\* ------------------------------------------------ _send_device_tracker_see
\* <= for <: still home exactly at the timeout
_send_device_tracker_see_Inclusive(device, monotonic_time) ==
    LET classified ==
            IF monotonic_time - timeout_not_home <= device.last_seen
            THEN [device EXCEPT !.zone = "home"]
            ELSE [device EXCEPT !.zone = "not_home"]
    IN  [ device       |-> classified,
          service_data |-> [ dev_id        |-> Placeholder(classified.address),
                             host_name     |-> classified.prefname,
                             location_name |-> classified.zone ] ]

\* the zone check and the service_data handed to device_tracker.see
_send_device_tracker_see(device, monotonic_time) ==
    LET classified ==
            IF monotonic_time - timeout_not_home < device.last_seen
            THEN [device EXCEPT !.zone = "home"]
            ELSE [device EXCEPT !.zone = "not_home"]
    IN  [ device       |-> classified,
          service_data |-> [ dev_id        |-> Placeholder(classified.address),
                             host_name     |-> classified.prefname,
                             location_name |-> classified.zone ] ]

\* ------------------------------------------------------------------ state
VARIABLES
    devices,         \* self.devices, in insertion order
    now,             \* MONOTONIC_TIME()
    pc,              \* position of _async_update_data
    tick,            \* number of updates started
    snapshot,        \* MACs of async_discovered_service_info, in order
    idx,             \* service_infos of the snapshot fully processed
    cur,             \* device: reference to the entry being processed
    matched,         \* matched_scanners: the sources of the batch
    j,               \* position of the loop over matched_scanners
    discovered,      \* the sighting of the last pass, << >> before the first
    scanner_device,  \* its scanner entry, NoDevice when it was skipped
    directory,       \* the device registry as it is during this loop body
    see,             \* device_tracker.see calls awaited (at most one)
    last_exception,  \* how the last update ended (None: success)
    tick_start,      \* history: self.devices when the update started
    resolved,        \* history: keys the area resolver returned for
    created,         \* history: every key ever put into self.devices
    max_stamp,       \* history: per MAC, the largest stamp ever stored on it
    dump             \* the response of dump_devices on its way to the caller

vars == << devices, now, pc, tick, snapshot, idx, cur, matched, j, discovered,
           scanner_device, directory, see, last_exception, tick_start,
           resolved, created, max_stamp, dump >>
loopVars == << cur, matched, j, discovered, scanner_device, directory >>

Max(a, b) == IF a < b THEN b ELSE a
MaxNow == BootTime + ClockStep * MaxClockSteps

Snapshots(macs) ==
    { << >> } \cup { <<m>> : m \in macs } \cup
    { <<p[1], p[2]>> : p \in {q \in macs \X macs : q[1] # q[2]} }

\* the batches async_scanner_devices_by_address can return for a device:
\* distinct scanners, upper-case sources, none of them the device itself
SourceOf(m) == Addr(m, TRUE, ":")
MatchedFor(mac) ==
    LET S == ScannerMacs \ {mac}
    IN  { << >> } \cup { <<SourceOf(m)>> : m \in S } \cup
        { <<SourceOf(p[1]), SourceOf(p[2])>> : p \in {q \in S \X S : q[1] # q[2]} }

\* the timestamp histories a scanner can hold for the device at this time:
\* no history at all, a history without the device, a history with it
TimestampsFor(address, kinds) ==
    { [has |-> FALSE, map |-> << >>] : k \in kinds \cap {"absent"} } \cup
    { [has |-> TRUE, map |-> << >>] : k \in kinds \cap {"missing"} } \cup
    { [has |-> TRUE, map |-> [k \in {Upper(address)} |-> now - ClockStep * age]] :
        age \in {a \in 0..MaxStampAge :
                    "known" \in kinds /\ now - ClockStep * a >= BootTime} }

Init ==
    /\ devices = << >>
    /\ now = BootTime
    /\ pc = "idle"
    /\ tick = 0
    /\ snapshot = << >>
    /\ idx = 0
    /\ cur = NoDevice
    /\ matched = << >>
    /\ j = 0
    /\ discovered = << >>
    /\ scanner_device = NoDevice
    /\ directory = << >>
    /\ see = << >>
    /\ last_exception = None
    /\ tick_start = << >>
    /\ resolved = {}
    /\ created = {}
    /\ max_stamp = [m \in Macs |-> 0]
    /\ dump = << >>

ResetLoop ==
    /\ cur' = NoDevice
    /\ matched' = << >>
    /\ j' = 0
    /\ discovered' = << >>
    /\ scanner_device' = NoDevice
    /\ directory' = << >>

\* ------------------------------------------------------ _async_update_data
\* E is the environment of the run: what the advertisement source, the
\* scanners, the device registry and the clock can present.

\* line 322: the snapshot is fetched
StartTick(E) ==
    /\ pc = "idle"
    /\ dump' = << >>
    /\ tick < MaxTicks
    /\ tick' = tick + 1
    /\ now' \in {now + ClockStep * k : k \in {a \in E.advance : now + ClockStep * a <= MaxNow}}
    /\ snapshot' \in {s \in Snapshots(E.adverts) : Len(s) <= MaxSnapshot}
    /\ idx' = 0
    /\ pc' = "loop"
    /\ last_exception' = None
    /\ tick_start' = devices
    /\ resolved' = {}
    /\ ResetLoop
    /\ UNCHANGED << devices, see, created, max_stamp >>

\* line 322: the advertisement source raises
FetchFault(E) ==
    /\ pc = "idle"
    /\ dump' = << >>
    /\ tick < MaxTicks
    /\ tick' = tick + 1
    /\ now' \in {now + ClockStep * k : k \in {a \in E.advance : now + ClockStep * a <= MaxNow}}
    /\ last_exception' = "fetch"
    /\ tick_start' = devices
    /\ snapshot' = << >>
    /\ idx' = 0
    /\ resolved' = {}
    /\ ResetLoop
    /\ UNCHANGED << devices, pc, see, created, max_stamp >>

\* lines 328-348: get/create the device entry, names and prefname
BeginDevice(E) ==
    /\ pc = "loop"
    /\ dump' = << >>
    /\ idx < Len(snapshot)
    /\ \E u \in BOOLEAN, s \in {":", "-"}, service_info \in E.infos :
         LET address == Addr(snapshot[idx + 1], u, s)
             r == _get_or_create_device(devices, address)
             device == r.devices[r.device].val
             d1 == [device EXCEPT
                      !.name = IF device.name # None THEN device.name
                               ELSE service_info.name,
                      !.local_name = IF device.local_name # None
                                     THEN device.local_name
                                     ELSE service_info.local_name,
                      !.manufacturer = IF device.manufacturer # None
                                       THEN device.manufacturer
                                       ELSE service_info.manufacturer,
                      !.connectable = service_info.connectable]
             d2 == IF d1.prefname = NoPrefname \/ d1.prefname.generated
                   THEN [d1 EXCEPT !.prefname =
                           IF d1.name # None THEN Named(d1.name)
                           ELSE IF d1.local_name # None THEN Named(d1.local_name)
                           ELSE Placeholder(d1.address)]
                   ELSE d1
         IN  /\ devices' = SetDevice(r.devices, r.device, d2)
             /\ cur' = r.device
             /\ created' = created \cup DictKeys(r.devices)
    /\ pc' = "lookup"
    /\ matched' = << >>
    /\ j' = 0
    /\ discovered' = << >>
    /\ scanner_device' = NoDevice
    /\ directory' = << >>
    /\ UNCHANGED << now, tick, snapshot, idx, see, last_exception, tick_start,
                    resolved, max_stamp >>

\* lines 351-353: the scanners that have seen the address
LookupScanners(E) ==
    /\ pc = "lookup"
    /\ dump' = << >>
    /\ matched' \in {m \in MatchedFor(devices[cur].key.mac) : Len(m) <= MaxSightings}
    /\ directory' \in E.dirs
    /\ j' = 1
    /\ pc' = "scan"
    /\ UNCHANGED << devices, now, tick, snapshot, idx, cur, discovered,
                    scanner_device, see, last_exception, tick_start, resolved,
                    created, max_stamp >>

\* lines 351-353: the advertisement source raises, the update ends
LookupFault ==
    /\ pc = "lookup"
    /\ dump' = << >>
    /\ pc' = "idle"
    /\ last_exception' = "lookup"
    /\ UNCHANGED << devices, now, tick, snapshot, idx, see, tick_start,
                    resolved, created, max_stamp >>
    /\ UNCHANGED loopVars

\* lines 354-374: one pass of the loop over matched_scanners
ScanStep(E) ==
    /\ pc = "scan"
    /\ dump' = << >>
    /\ j <= Len(matched)
    /\ \E rssi \in E.rssis, ts \in TimestampsFor(devices[cur].val.address, E.stamps) :
         LET disc == [ source         |-> matched[j],
                       rssi           |-> rssi,
                       has_timestamps |-> ts.has,
                       timestamps     |-> ts.map ]
             first == _get_device(devices, disc.source)
             devs1 == IF first = NoDevice
                      THEN _refresh_scanners(devices, matched, directory)
                      ELSE devices
             found == IF first = NoDevice
                      THEN _get_device(devs1, disc.source)
                      ELSE first
         IN  /\ discovered' = <<disc>>
             /\ scanner_device' = found
             /\ devices' = IF found = NoDevice
                           THEN devs1
                           ELSE SetDevice(devs1, cur,
                                    add_scanner(devs1[cur].val, devs1[found].val, disc))
    /\ created' = created \cup DictKeys(devices')
    /\ max_stamp' =
         IF scanner_device' = NoDevice THEN max_stamp
         ELSE LET mac == devices'[cur].key.mac
                  stored == devices'[cur].val.scanners[
                               DictIndex(devices'[cur].val.scanners,
                                         devices'[scanner_device'].key)].val
              IN  [max_stamp EXCEPT ![mac] = Max(@, stored.stamp)]
    /\ j' = j + 1
    /\ UNCHANGED << now, pc, tick, snapshot, idx, cur, matched, directory, see,
                    last_exception, tick_start, resolved >>

\* lines 377-387: the allow-list, then the zone check and the see call
EndDevice ==
    /\ pc = "scan"
    /\ dump' = << >>
    /\ j > Len(matched)
    /\ LET device == devices[cur].val
           d1 == IF Upper(device.address) \in TrackedAddresses
                 THEN [device EXCEPT !.send_tracker_see = TRUE,
                                     !.create_sensor = TRUE]
                 ELSE device
       IN  IF d1.send_tracker_see
           THEN LET r == _send_device_tracker_see(d1, now)
                IN  /\ devices' = SetDevice(devices, cur, r.device)
                    /\ see' = <<r.service_data>>
                    /\ pc' = "see"
                    /\ idx' = idx
                    /\ cur' = cur
           ELSE /\ devices' = SetDevice(devices, cur, d1)
                /\ see' = see
                /\ pc' = "loop"
                /\ idx' = idx + 1
                /\ cur' = NoDevice
    /\ matched' = << >>
    /\ j' = 0
    /\ discovered' = << >>
    /\ scanner_device' = NoDevice
    /\ directory' = << >>
    /\ UNCHANGED << now, tick, snapshot, last_exception, tick_start, resolved,
                    created, max_stamp >>

\* line 421: the awaited service call returns
SeeReturns ==
    /\ pc = "see"
    /\ dump' = << >>
    /\ see' = << >>
    /\ pc' = "loop"
    /\ idx' = idx + 1
    /\ cur' = NoDevice
    /\ UNCHANGED << devices, now, tick, snapshot, matched, j, discovered,
                    scanner_device, directory, last_exception, tick_start,
                    resolved, created, max_stamp >>

\* line 421: the awaited service call raises, the update ends
SeeFault ==
    /\ pc = "see"
    /\ dump' = << >>
    /\ see' = << >>
    /\ pc' = "idle"
    /\ last_exception' = "see"
    /\ UNCHANGED << devices, now, tick, snapshot, idx, tick_start, resolved,
                    created, max_stamp >>
    /\ UNCHANGED loopVars

\* line 389: the areas of all devices, after the last service_info
RefreshAreas ==
    /\ pc = "loop"
    /\ dump' = << >>
    /\ idx = Len(snapshot)
    /\ LET r == _refresh_areas_by_min_distance(devices, 1, {})
       IN  /\ devices' = r.devices
           /\ resolved' = r.done
           /\ last_exception' = IF r.raised THEN "area" ELSE None
    /\ pc' = "idle"
    /\ UNCHANGED << now, tick, snapshot, idx, see, tick_start, created, max_stamp >>
    /\ UNCHANGED loopVars

\* lines 499-504: dump_devices is served between two updates or while an
\* update awaits device_tracker.see; the response is gone once the update
\* moves on
Dump ==
    /\ pc \in {"idle", "see"}
    /\ dump' = <<service_dump_devices(devices)>>
    /\ UNCHANGED << devices, now, pc, tick, snapshot, idx, see, last_exception,
                    tick_start, resolved, created, max_stamp >>
    /\ UNCHANGED loopVars

Next(E) ==
    \/ StartTick(E)
    \/ FetchFault(E)
    \/ BeginDevice(E)
    \/ LookupScanners(E)
    \/ LookupFault
    \/ ScanStep(E)
    \/ EndDevice
    \/ SeeReturns
    \/ SeeFault
    \/ RefreshAreas
    \/ Dump

\* --------------------------------------------------------- environments
\* areas: one advertised device, every signal strength, both scanners in
\* the directory with or without an area, scanners with and without a
\* timestamp for the device, the clock standing still
EnvArea ==
    [ adverts |-> {WatchMac},
      infos   |-> {Anonymous},
      rssis   |-> RssiValues,
      stamps  |-> {"absent", "known"},
      dirs    |-> {d \in Directories : Len(d) = 2},
      advance |-> {0} ]
NextArea == Next(EnvArea)
SpecArea == Init /\ [][NextArea]_vars

\* roster: a scanner that is itself advertised, every directory, one
\* signal strength, scanners without timestamp history
EnvRoster ==
    [ adverts |-> AdvertMacs,
      infos   |-> {Anonymous},
      rssis   |-> {-55},
      stamps  |-> {"absent"},
      dirs    |-> Directories,
      advance |-> {0} ]
NextRoster == Next(EnvRoster)
SpecRoster == Init /\ [][NextRoster]_vars

\* time: every timestamp history and clock advance, one signal strength,
\* both scanners in the directory with their areas
EnvTime ==
    [ adverts |-> AdvertMacs,
      infos   |-> {Anonymous},
      rssis   |-> {-55},
      stamps  |-> {"absent", "missing", "known"},
      dirs    |-> {<<DirEntry("s1", TRUE), DirEntry("s2", TRUE)>>},
      advance |-> 0..MaxClockSteps ]
NextTime == Next(EnvTime)
SpecTime == Init /\ [][NextTime]_vars

\* fleet: two beacons, one of them tracked, one signal strength, both
\* scanners in the directory, the first with or without an area
EnvFleet ==
    [ adverts |-> {WatchMac, TagMac},
      infos   |-> {Anonymous},
      rssis   |-> {-55},
      stamps  |-> {"absent"},
      dirs    |-> {<<DirEntry("s1", b), DirEntry("s2", TRUE)>> : b \in BOOLEAN},
      advance |-> {0} ]
NextFleet == Next(EnvFleet)
SpecFleet == Init /\ [][NextFleet]_vars

\* ================================================================ claims
Devs == 1..Len(devices)
Dist(device, i) == device.scanners[i].val.rssi_distance
\* the observations nearer than the radius, and the first nearest of them
Qualifying(device, radius) ==
    {i \in 1..Len(device.scanners) : Dist(device, i) < radius}
Nearest(device, radius) ==
    CHOOSE i \in Qualifying(device, radius) :
        \A k \in Qualifying(device, radius) :
            /\ Dist(device, i) <= Dist(device, k)
            /\ Dist(device, k) = Dist(device, i) => i <= k
AreaOfNearest(before, after, radius) ==
    Qualifying(before, radius) # {} =>
        LET w == before.scanners[Nearest(before, radius)].val
        IN  /\ after.area_id = w.area_id
            /\ after.area_distance = w.rssi_distance
            /\ after.area_distance < radius
\* the radii a device's own observations put on the boundary
Radii(device) ==
    {max_area_radius} \cup {Dist(device, i) : i \in 1..Len(device.scanners)}

C2_NoAreaOutOfRange ==
    \A k \in Devs :
        /\ devices[k].key \in resolved
        /\ Qualifying(devices[k].val, max_area_radius) = {}
        => /\ devices[k].val.area_id = None
           /\ devices[k].val.area_name = NoneName
           /\ devices[k].val.area_distance = NoneNum
\* a device that had an area when the update started and whose
\* observations are now all out of range
C2_Witness ==
    /\ pc = "idle"
    /\ \E k \in Devs :
         /\ devices[k].key \in resolved
         /\ k <= Len(tick_start)
         /\ tick_start[k].val.area_id # None
         /\ tick_start[k].val.area_distance # NoneNum
         /\ Len(devices[k].val.scanners) > 0
         /\ Qualifying(devices[k].val, max_area_radius) = {}
         /\ devices[k].val.area_id = None

\* C3: when the zone check has run, zone is "home" exactly when
\* now - last_seen < timeout_not_home and "not_home" otherwise, and the
\* location_name handed to the presence sink is the zone stored.
C3_ZoneByTimeout ==
    pc = "see" =>
        LET d == devices[cur].val
        IN  /\ d.zone = "home" <=> now - d.last_seen < timeout_not_home
            /\ d.zone # "home" => d.zone = "not_home"
            /\ Len(see) = 1
            /\ see[1].location_name = d.zone
\* exactly at the timeout: not_home
C3_Witness ==
    /\ pc = "see"
    /\ devices[cur].val.last_seen > 0
    /\ now - devices[cur].val.last_seen = timeout_not_home
    /\ devices[cur].val.zone = "not_home"
    /\ see[1].location_name = "not_home"

\* the stamp a sighting carries for the device
StampOf(disc, address) ==
    IF disc.has_timestamps /\ Upper(address) \in DOMAIN disc.timestamps
    THEN disc.timestamps[Upper(address)]
    ELSE 0
JustStored == pc = "scan" /\ discovered # << >> /\ scanner_device # NoDevice
EntryOf(device, key) == device.scanners[DictIndex(device.scanners, key)].val

\* C4: a device never holds two observations under one scanner address,
\* and right after a sighting is stored the entry under the scanner's
\* address is exactly that sighting: its rssi, the distance of that rssi,
\* its timestamp and the scanner's area at that moment.
C4_ReplaceWholesale ==
    /\ \A k \in Devs :
         \A a, b \in 1..Len(devices[k].val.scanners) :
             devices[k].val.scanners[a].key = devices[k].val.scanners[b].key => a = b
    /\ JustStored =>
         LET d == devices[cur].val
             sd == devices[scanner_device].val
             disc == discovered[1]
         IN  /\ format_mac(disc.source) \in DictKeys(d.scanners)
             /\ EntryOf(d, format_mac(disc.source)) =
                  [ source        |-> disc.source,
                    area_id       |-> sd.area_id,
                    rssi          |-> disc.rssi,
                    rssi_distance |-> rssi_to_metres(disc.rssi),
                    stamp         |-> StampOf(disc, d.address) ]
\* a sighting that replaced an observation differing in rssi, timestamp
\* and area
C4_Witness ==
    /\ JustStored
    /\ cur <= Len(tick_start)
    /\ LET key == format_mac(discovered[1].source)
           old == tick_start[cur].val
           new == devices[cur].val
       IN  /\ key \in DictKeys(old.scanners)
           /\ EntryOf(old, key).rssi # EntryOf(new, key).rssi
           /\ EntryOf(old, key).stamp > EntryOf(new, key).stamp
           /\ EntryOf(old, key).area_id # EntryOf(new, key).area_id
           /\ DictIndex(new.scanners, key) = DictIndex(old.scanners, key)

Stamps(device) == {device.scanners[i].val.stamp : i \in 1..Len(device.scanners)}
MaxStampOf(device) == CHOOSE m \in Stamps(device) : \A x \in Stamps(device) : x <= m

NonScannerKeys == {devices[k].key : k \in {i \in Devs : ~devices[i].val.is_scanner}}

\* C6: a fault raised while one device is processed keeps no other device
\* of the snapshot from being processed and area-resolved: when an update
\* has ended by such a fault, at most the faulting device of the snapshot
\* is unprocessed and at most the faulting device has no area resolved.
C6_FaultIsolated ==
    pc = "idle" /\ last_exception \in {"lookup", "see", "area"} =>
        /\ idx >= Len(snapshot) - 1
        /\ Cardinality(NonScannerKeys \ resolved) <= 1

\* C7: when an update has ended by a failing call to the advertisement
\* source (the snapshot fetch or a scanner lookup), the registry is what it
\* was when the update started.
C7_FailedTickUntouched ==
    pc = "idle" /\ last_exception \in {"fetch", "lookup"} => devices = tick_start

HasEntry(dir, source) ==
    \E i \in 1..Len(dir) :
        /\ dir[i].connection[1] \in {"mac", "bluetooth"}
        /\ Upper(dir[i].connection[2]) = Upper(source)

\* C8: a sighting whose scanner address has no entry in the topology
\* directory stores no observation, and the update goes on.
C8_NoEntryNoObservation ==
    pc = "scan" /\ discovered # << >> /\ ~HasEntry(directory, discovered[1].source) =>
        /\ scanner_device = NoDevice
        /\ last_exception = None

\* C9: every observation is built from a registry record that is a scanner
\* at that moment (the roster resolver has run for it), also when the
\* address entered the registry as an advertised device.
C9_BuiltFromScanner ==
    JustStored => devices[scanner_device].val.is_scanner

\* C10: _get_or_create_device returns a record found by every spelling of
\* its address; a second call with any address of the same canonical form
\* returns the same record and leaves the registry as it is; and
\* _get_device finds no record exactly for the canonical addresses under
\* which none was ever created.
C10_GetOrCreateIdempotent ==
    \A a \in RawAddresses :
        LET r1 == _get_or_create_device(devices, a)
        IN  /\ r1.device # NoDevice
            /\ r1.devices[r1.device].key = format_mac(a)
            /\ r1.devices[r1.device].val.address = format_mac(a)
            /\ _get_device(devices, a) # NoDevice => r1.devices = devices
            /\ _get_device(devices, a) = NoDevice <=> format_mac(a) \notin created
            /\ \A b \in RawAddresses :
                 format_mac(b) = format_mac(a) =>
                     LET r2 == _get_or_create_device(r1.devices, b)
                     IN  /\ r2.device = r1.device
                         /\ r2.devices = r1.devices
                         /\ _get_device(r1.devices, b) = r1.device
\* the second update met an address again: the record of the first update
\* was returned and none was created
C10_Witness ==
    /\ pc = "lookup"
    /\ tick = 2
    /\ tick_start # << >>
    /\ cur <= Len(tick_start)
    /\ Len(devices) = Len(tick_start)
    /\ devices[cur].key = tick_start[cur].key
    /\ devices[cur].key \in created

NoRepeat(d) == \A a, b \in 1..Len(d) : d[a].key = d[b].key => a = b
\* C11: the response of dump_devices has exactly the registry's addresses
\* as its top-level keys, each once; for every device the keys of the
\* dumped scanners are the keys of its scanners map; and serving the dump
\* leaves the registry as it is.
C11_DumpMatchesRegistry ==
    /\ [](dump # << >> =>
            LET out == dump[1]
            IN  /\ NoRepeat(out)
                /\ DictKeys(out) = DictKeys(devices)
                /\ Len(out) = Len(devices)
                /\ \A k \in Devs :
                     LET dumped == out[DictIndex(out, devices[k].key)].val
                     IN  /\ NoRepeat(dumped.scanners)
                         /\ DictKeys(dumped.scanners) =
                              DictKeys(devices[k].val.scanners)
                         /\ dumped.address = devices[k].key)
    /\ [][dump' # << >> => devices' = devices]_vars
\* a dump served while the update awaits device_tracker.see, of a registry
\* with a device seen by two scanners
C11_Witness ==
    /\ dump # << >>
    /\ pc = "see"
    /\ Len(dump[1]) = 3
    /\ \E k \in Devs : Len(dump[1][k].val.scanners) = 2

\* C12: a sighting without a timestamp for the device is stored with the
\* stamp 0 and ends no update; and a tracked device whose observations all
\* carry the stamp 0 (last_seen = 0) is classified "not_home" whatever the
\* monotonic clock reads, also below timeout_not_home.
C12_SentinelIsStale ==
    /\ JustStored /\ StampOf(discovered[1], devices[cur].val.address) = 0 =>
         /\ EntryOf(devices[cur].val, format_mac(discovered[1].source)).stamp = 0
         /\ last_exception = None
    /\ pc = "see" /\ devices[cur].val.last_seen = 0
                  /\ Len(devices[cur].val.scanners) > 0 =>
         /\ devices[cur].val.zone = "not_home"
         /\ see[1].location_name = "not_home"

\* over the whole range: a higher rssi gives a strictly smaller distance,
\* and 30 dB less gives ten times the distance
RssiOrderReversed ==
    /\ \A a, b \in RssiRange : a < b => rssi_to_metres(a) > rssi_to_metres(b)
    /\ \A a \in RssiRange :
         a <= ref_power /\ a - 10 * attenuation \in RssiRange =>
             rssi_to_metres(a - 10 * attenuation) = 10 * rssi_to_metres(a)
\* C13: rssi_to_metres is 10 ** ((-55 - rssi) / 30): exactly 1 metre at
\* -55 and 10 metres at -85, strictly decreasing in rssi; of any two
\* observations stored in the registry the one with the higher rssi has
\* the strictly smaller rssi_distance.
C13_DistanceDecreasing ==
    /\ rssi_to_metres(-55) = Scale
    /\ rssi_to_metres(-85) = 10 * Scale
    /\ RssiOrderReversed
    /\ \A k, l \in Devs :
         \A a \in 1..Len(devices[k].val.scanners) :
           \A b \in 1..Len(devices[l].val.scanners) :
             LET x == devices[k].val.scanners[a].val
                 y == devices[l].val.scanners[b].val
             IN  /\ x.rssi_distance = rssi_to_metres(x.rssi)
                 /\ x.rssi > y.rssi => x.rssi_distance < y.rssi_distance
\* a device holding an observation at -55 (1 metre) and one at -85
\* (10 metres)
C13_Witness ==
    \E k \in Devs :
        LET d == devices[k].val
        IN  /\ Len(d.scanners) = 2
            /\ d.scanners[1].val.rssi = -55
            /\ d.scanners[1].val.rssi_distance = Scale
            /\ d.scanners[2].val.rssi = -85
            /\ d.scanners[2].val.rssi_distance = 10 * Scale

TickCompleted == pc = "idle" /\ tick > 0 /\ last_exception = None
MinDist(device, radius) ==
    CHOOSE x \in {Dist(device, i) : i \in Qualifying(device, radius)} :
        \A i \in Qualifying(device, radius) : x <= Dist(device, i)
\* C14: after every update that completes, for every record that is not a
\* scanner, in the snapshot of that update or not, area_id is unset exactly
\* when no stored observation is nearer than max_area_radius, so is
\* area_distance, and otherwise area_distance is the smallest qualifying
\* distance.
C14_AreasAgreeAfterTick ==
    TickCompleted =>
        \A k \in Devs :
            ~devices[k].val.is_scanner =>
                LET d == devices[k].val
                    none == Qualifying(d, max_area_radius) = {}
                IN  /\ d.area_id = None <=> none
                    /\ d.area_distance = NoneNum <=> none
                    /\ ~none => d.area_distance = MinDist(d, max_area_radius)
\* an update with an empty snapshot completed and gave an area to a device
\* that had observations in range but no area when it started
C14_Witness ==
    /\ TickCompleted
    /\ snapshot = << >>
    /\ \E k \in Devs :
         /\ ~devices[k].val.is_scanner
         /\ tick_start[k].val.area_id = None
         /\ tick_start[k].val.scanners = devices[k].val.scanners
         /\ Len(devices[k].val.scanners) = 2
         /\ devices[k].val.area_id # None
         /\ devices[k].val.area_distance = MinDist(devices[k].val, max_area_radius)

\* C15: after every update that completes, every allow-listed device of
\* the registry, in the snapshot of that update or not, has zone "home"
\* exactly when now - last_seen < timeout_not_home; a device that is no
\* longer advertised is so classified "not_home".
C15_ZoneOfEveryTracked ==
    TickCompleted =>
        \A k \in Devs :
            devices[k].val.send_tracker_see =>
                /\ devices[k].val.zone = "home" <=>
                     now - devices[k].val.last_seen < timeout_not_home
                /\ devices[k].val.zone \in {"home", "not_home"}

AreaAgrees(d) ==
    LET none == Qualifying(d, max_area_radius) = {}
    IN  /\ d.area_id = None <=> none
        /\ d.area_distance = NoneNum <=> none
        /\ ~none => d.area_distance = MinDist(d, max_area_radius)
\* C16: a dump served while an update awaits device_tracker.see shows no
\* half-updated device: for every dumped device that is not a scanner the
\* area fields agree with the dumped scanners map.
C16_NoHalfUpdatedDevice ==
    dump # << >> /\ pc = "see" =>
        \A k \in 1..Len(dump[1]) :
            ~dump[1][k].val.is_scanner => AreaAgrees(dump[1][k].val)

\* C17: once name, local_name or manufacturer of a record holds a value,
\* no step of any update changes that field, neither the ingestion of an
\* advertisement nor a refresh of the scanners from the directory.
C17_FirstNonNullWins ==
    [][\A k \in Devs : \A f \in {"name", "local_name", "manufacturer"} :
          devices[k].val[f] # None => devices'[k].val[f] = devices[k].val[f]]_vars

\* the registry record an observation's key names
ScannerOf(key) == devices[DictIndex(devices, key)].val
\* C18: the area_id of an observation is the scanner record's area_id at
\* the moment the observation was built: it changes only in the step that
\* stores a new sighting of that scanner on that device, whatever happens
\* to the scanner record; and the area the resolver gives a device is the
\* area_id held by its nearest observation.
C18_AreaIsSnapshot ==
    /\ [][\A k \in Devs : \A i \in 1..Len(devices[k].val.scanners) :
            LET key == devices[k].val.scanners[i].key
            IN  devices'[k].val.scanners[i] # devices[k].val.scanners[i] =>
                    /\ pc = "scan" /\ cur = k
                    /\ scanner_device' # NoDevice
                    /\ format_mac(discovered'[1].source) = key]_vars
    /\ [](\A k \in Devs :
            devices[k].key \in resolved
            /\ Qualifying(devices[k].val, max_area_radius) # {} =>
                devices[k].val.area_id =
                    devices[k].val.scanners[
                        Nearest(devices[k].val, max_area_radius)].val.area_id)
\* the scanner's area was changed by a refresh after the observation was
\* built; the update completed and the device got the observation's area
C18_Witness ==
    /\ TickCompleted
    /\ \E k \in Devs :
         /\ devices[k].key \in resolved
         /\ Len(devices[k].val.scanners) = 1
         /\ LET o == devices[k].val.scanners[1]
            IN  /\ o.val.area_id # ScannerOf(o.key).area_id
                /\ devices[k].val.area_id = o.val.area_id
                /\ devices[k].val.area_id # None

\* C19: a record that is a scanner keeps its area_id, its name and its
\* identity (address, unique_id, entry_id) in every step, also when
\* _refresh_scanners runs and the directory holds other values for it.
C19_KnownScannersUntouched ==
    [][\A k \in Devs :
          devices[k].val.is_scanner =>
              \A f \in {"area_id", "name", "entry_id", "address", "unique_id"} :
                  devices'[k].val[f] = devices[k].val[f]]_vars

\* C20: observations are never expired: in every step each device keeps
\* every scanner key it has, an observation changes only in the step that
\* stores a new sighting of its scanner on its device, however far the
\* clock has moved; and whenever the resolver has returned for a device,
\* the device has an area exactly when one of its observations, of whatever
\* age, is nearer than max_area_radius.
C20_NeverExpired ==
    /\ [][\A k \in Devs :
            /\ Len(devices'[k].val.scanners) >= Len(devices[k].val.scanners)
            /\ \A i \in 1..Len(devices[k].val.scanners) :
                 /\ devices'[k].val.scanners[i].key = devices[k].val.scanners[i].key
                 /\ devices'[k].val.scanners[i].val # devices[k].val.scanners[i].val =>
                      /\ pc = "scan" /\ cur = k /\ j <= Len(matched)
                      /\ format_mac(matched[j]) = devices[k].val.scanners[i].key]_vars
    /\ [](\A k \in Devs :
            devices[k].key \in resolved =>
                (devices[k].val.area_distance # NoneNum <=>
                    Qualifying(devices[k].val, max_area_radius) # {}))
\* an observation older than timeout_not_home, untouched by the update
\* that just completed, gave its device the area
C20_Witness ==
    /\ TickCompleted
    /\ tick = 2
    /\ \E k \in Devs :
         /\ k <= Len(tick_start)
         /\ Len(devices[k].val.scanners) = 1
         /\ tick_start[k].val.scanners = devices[k].val.scanners
         /\ devices[k].val.scanners[1].val.stamp > 0
         /\ now - devices[k].val.scanners[1].val.stamp >= timeout_not_home
         /\ devices[k].key \in resolved
         /\ devices[k].val.area_id = devices[k].val.scanners[1].val.area_id
         /\ devices[k].val.area_id # None

\* C21: last_seen is a running maximum: the step that stores an
\* observation sets last_seen to the larger of its previous value and the
\* observation's stamp, no step lowers it, and it is never below the stamp
\* of an observation the device holds.
C21_LastSeenRunningMax ==
    /\ [][\A k \in Devs :
            /\ devices'[k].val.last_seen >= devices[k].val.last_seen
            /\ pc = "scan" /\ cur = k /\ scanner_device' # NoDevice =>
                 devices'[k].val.last_seen =
                     Max(devices[k].val.last_seen,
                         StampOf(discovered'[1], devices[k].val.address))]_vars
    /\ [](\A k \in Devs : \A x \in Stamps(devices[k].val) :
            devices[k].val.last_seen >= x)
\* a sighting without a timestamp was stored on a device seen before:
\* last_seen kept the earlier stamp
C21_Witness ==
    /\ JustStored
    /\ StampOf(discovered[1], devices[cur].val.address) = 0
    /\ cur <= Len(tick_start)
    /\ tick_start[cur].val.last_seen > 0
    /\ devices[cur].val.last_seen = tick_start[cur].val.last_seen

\* C22: in every state each key of self.devices is the address of the
\* record stored under it and is held once, the keys are exactly those
\* ever created, every key of every device's scanners map is the key of a
\* record of self.devices; and no step removes or re-keys a record.
C22_RegistryIntegrity ==
    /\ [](/\ NoRepeat(devices)
          /\ DictKeys(devices) = created
          /\ \A k \in Devs :
               /\ devices[k].key = devices[k].val.address
               /\ devices[k].key = format_mac(devices[k].val.address)
               /\ devices[k].val.unique_id = devices[k].key
               /\ DictKeys(devices[k].val.scanners) \subseteq DictKeys(devices))
    /\ [][/\ Len(devices') >= Len(devices)
          /\ \A k \in Devs : devices'[k].key = devices[k].key]_vars
\* the second update: the records of the first are all there, one of them
\* a device with observations of two scanners, each a record of its own
C22_Witness ==
    /\ tick = 2
    /\ Len(tick_start) = 3
    /\ Len(devices) = 3
    /\ \E k \in Devs :
         /\ Len(devices[k].val.scanners) = 2
         /\ \A i \in 1..2 :
              /\ DictIndex(devices, devices[k].val.scanners[i].key) # 0
              /\ ScannerOf(devices[k].val.scanners[i].key).address =
                   devices[k].val.scanners[i].key

====
